---- MODULE Spec2Model ----
(***************************************************************************)
(* Model of FieldDataProcessor (src/field_data_processor.py): a four-stage *)
(* pipeline over an in-memory table: ingest_sql_data, rename_columns,      *)
(* apply_corrections, weather_station_mapping, and process() that chains   *)
(* them.  A table (pandas DataFrame) is an ordered list of column labels   *)
(* and a list of rows; the pandas operations the code uses (rename, abs,   *)
(* apply, merge) are modelled by what they do to such a table.             *)
(***************************************************************************)
EXTENDS Integers, Sequences, FiniteSets, TLC

VARIABLES
    config_params,      \* the mapping handed to the constructor
    obj,                \* "absent" | "live" | "failed": the FieldDataProcessor instance
    columns_to_rename,  \* self.columns_to_rename: a dict, as its list of items
    values_to_rename,   \* self.values_to_rename: remap table
    df,                 \* self.df
    engine,             \* self.engine: "None" | "engine"
    io,                 \* external collaborators invoked so far
    raised,             \* error kind that reached the caller of the last call
    pc,                 \* position inside process(), "idle" outside it
    started,            \* stages process() has started, in order, and how each ended
    outcome,            \* how the last process() call ended: "returned", or the error kind it raised
    src,                \* the table the last successful ingestion returned
    trace,              \* stage calls since the last ingestion
    pre,                \* self.df before the last stage call
    pre2                \* self.df before the stage call preceding it

vars == <<config_params, obj, columns_to_rename, values_to_rename, df, engine,
          io, raised, pc, started, outcome, src, trace, pre, pre2>>

-----------------------------------------------------------------------------
(* Bounds of the model *)

\* width of the integer dtype of a numeric column (int64 in pandas, scaled down)
IntBits == 6
\* stage calls made on one ingested table
MaxCalls == 3
\* calls of one stage made in a row on one table of the stage's input sets
MaxApply == 2
\* columns and rows of the tables of the stages' input sets
MaxCols == 3
MaxRows == 2

-----------------------------------------------------------------------------
(* Cell values: integers of a fixed-width dtype, strings, and null (NaN) *)

IntV(n) == [t |-> "int", i |-> n, s |-> ""]
StrV(x) == [t |-> "str", i |-> 0, s |-> x]
NullV == [t |-> "null", i |-> 0, s |-> ""]

Pow2(n) == 2 ^ n
IntMin == 0 - Pow2(IntBits - 1)
Wrap(n) == ((n + Pow2(IntBits - 1)) % Pow2(IntBits)) - Pow2(IntBits - 1)

-----------------------------------------------------------------------------
(* Tables *)

NoneDF == [loaded |-> FALSE, cols |-> <<>>, rows |-> <<>>]
Table(cs, rs) == [loaded |-> TRUE, cols |-> cs, rows |-> rs]

ColSet(d) == {d.cols[i] : i \in 1..Len(d.cols)}
HasCol(d, c) == c \in ColSet(d)
ColIndex(cs, c) == CHOOSE i \in 1..Len(cs) : cs[i] = c
Column(d, c) == [r \in 1..Len(d.rows) |-> d.rows[r][ColIndex(d.cols, c)]]
IsUnique(cs) == \A i, j \in 1..Len(cs) : cs[i] = cs[j] => i = j
DropAt(sq, k) == [i \in 1..(Len(sq) - 1) |-> IF i < k THEN sq[i] ELSE sq[i + 1]]

\* DataFrame.rename(columns=m): every label that is a key of m is replaced,
\* labels that are not keys stay, keys that are not labels are ignored
Rename(d, m) ==
    [d EXCEPT !.cols = [i \in 1..Len(d.cols) |->
        IF d.cols[i] \in DOMAIN m THEN m[d.cols[i]] ELSE d.cols[i]]]

\* df[c] = cells: the column labelled c replaced by a series of new cells
SetColumn(d, c, cells) ==
    LET k == ColIndex(d.cols, c)
    IN  [d EXCEPT !.rows = [r \in 1..Len(d.rows) |->
            [j \in 1..Len(d.cols) |-> IF j = k THEN cells[r] ELSE d.rows[r][j]]]]

Ok(d) == [df |-> d, err |-> "none"]
Fail(d, e) == [df |-> d, err |-> e]

-----------------------------------------------------------------------------
(* rename_columns *)

TempBase == "__temp_name_for_swap__"

\* a placeholder taken without probing the labels in use
ProbeTempNameFixed(temp_name, columns) == temp_name

\* a second renaming that leaves the placeholder in place
SecondRenameMapKeep(column2, temp_name) == (temp_name :> temp_name)

\* temp_name = "__temp_name_for_swap__"; while temp_name in df.columns: temp_name += "_"
RECURSIVE ProbeTempName(_, _)
ProbeTempName(temp_name, columns) ==
    IF temp_name \in columns THEN ProbeTempName(temp_name \o "_", columns) ELSE temp_name

\* {column1: temp_name, column2: column1}: a dict literal, the later item wins
\* when the two keys are equal
FirstRenameMap(column1, column2, temp_name) ==
    (column2 :> column1) @@ (column1 :> temp_name)

SecondRenameMap(column2, temp_name) == (temp_name :> column2)

rename_columns(d, c2r) ==
    IF c2r = <<>> THEN Fail(d, "IndexError")
    ELSE IF ~d.loaded THEN Fail(d, "AttributeError")
    ELSE LET column1 == c2r[1][1]
             column2 == c2r[1][2]
             temp_name == ProbeTempName(TempBase, ColSet(d))
             d1 == Rename(d, FirstRenameMap(column1, column2, temp_name))
             d2 == Rename(d1, SecondRenameMap(column2, temp_name))
         IN  Ok(d2)

-----------------------------------------------------------------------------
(* apply_corrections *)

\* Series.abs(): element-wise absolute value in the column's dtype; the
\* negation of the smallest integer of a fixed-width dtype wraps around
AbsVal(v) ==
    IF v.t = "int" THEN IntV(Wrap(IF v.i < 0 THEN 0 - v.i ELSE v.i)) ELSE v

\* an absolute value that lets strings through
AbsNeverRaises(d, abs_column) == FALSE

\* abs() is not defined for strings
AbsRaises(d, abs_column) ==
    \E r \in 1..Len(d.rows) : Column(d, abs_column)[r].t = "str"

\* a lookup without the identity fallback, as Series.map(dict) does
RemapValNoFallback(remap, crop) == IF crop \in DOMAIN remap THEN remap[crop] ELSE NullV

\* self.values_to_rename.get(crop, crop)
RemapVal(remap, crop) == IF crop \in DOMAIN remap THEN remap[crop] ELSE crop

apply_corrections(d, remap, column_name, abs_column) ==
    IF ~d.loaded THEN Fail(d, "TypeError")
    ELSE IF ~HasCol(d, abs_column) THEN Fail(d, "KeyError")
    ELSE IF AbsRaises(d, abs_column) THEN Fail(d, "TypeError")
    ELSE LET d1 == SetColumn(d, abs_column,
                       [r \in 1..Len(d.rows) |-> AbsVal(Column(d, abs_column)[r])])
         IN  IF ~HasCol(d1, column_name) THEN Fail(d1, "KeyError")
             ELSE Ok(SetColumn(d1, column_name,
                       [r \in 1..Len(d1.rows) |->
                           RemapVal(remap, Column(d1, column_name)[r])]))

-----------------------------------------------------------------------------
(* weather_station_mapping *)

JoinKey == "Field_ID"

\* labels of the right table after its copy of the join key is dropped
RightLabels(r) == DropAt(r.cols, ColIndex(r.cols, JoinKey))

Overlap(l, r) ==
    ColSet(l) \cap {RightLabels(r)[i] : i \in 1..Len(RightLabels(r))}

Suffixed(cs, overlap, suffix) ==
    [i \in 1..Len(cs) |-> IF cs[i] \in overlap THEN cs[i] \o suffix ELSE cs[i]]

\* a suffix made a label equal to an earlier one (labels that repeated
\* before the suffixes were added do not count)
SuffixClash(labels, suffixed) ==
    \E j \in 1..Len(labels) :
        /\ \E i \in 1..(j - 1) : suffixed[i] = suffixed[j]
        /\ ~\E i \in 1..(j - 1) : labels[i] = labels[j]

\* the right rows whose key equals the key of left row lrow, in right order
Matches(l, r, lrow) ==
    SelectSeq(r.rows, LAMBDA rrow :
        rrow[ColIndex(r.cols, JoinKey)] = lrow[ColIndex(l.cols, JoinKey)])

\* an inner join: a left row without a match gives no output row
JoinRowInner(l, r, lrow) ==
    LET ms == Matches(l, r, lrow)
        rk == ColIndex(r.cols, JoinKey)
    IN  [m \in 1..Len(ms) |-> lrow \o DropAt(ms[m], rk)]

\* the output rows of one left row: one per match, or one null-filled row
JoinRow(l, r, lrow) ==
    LET ms == Matches(l, r, lrow)
        rk == ColIndex(r.cols, JoinKey)
    IN  IF ms = <<>>
        THEN << lrow \o [j \in 1..(Len(r.cols) - 1) |-> NullV] >>
        ELSE [m \in 1..Len(ms) |-> lrow \o DropAt(ms[m], rk)]

RECURSIVE JoinRows(_, _, _)
JoinRows(l, r, i) ==
    IF i > Len(l.rows) THEN <<>>
    ELSE JoinRow(l, r, l.rows[i]) \o JoinRows(l, r, i + 1)

\* DataFrame.merge(right, on='Field_ID', how='left')
Merge(l, r) ==
    IF ~HasCol(l, JoinKey) \/ ~HasCol(r, JoinKey) THEN Fail(l, "KeyError")
    ELSE LET llabels == Suffixed(l.cols, Overlap(l, r), "_x")
             rlabels == Suffixed(RightLabels(r), Overlap(l, r), "_y")
         IN  IF SuffixClash(l.cols, llabels) \/ SuffixClash(RightLabels(r), rlabels)
             THEN Fail(l, "MergeError")
             ELSE Ok(Table(llabels \o rlabels, JoinRows(l, r, 1)))

StationRenameMap == ("Weather_station_ID" :> "Weather_station")

\* the join-key column renamed before the fetch is attempted
weather_station_mapping_rename_first(d, fetched) ==
    IF ~d.loaded THEN Fail(d, "AttributeError")
    ELSE LET d1 == Rename(d, StationRenameMap)
         IN  IF ~fetched.loaded THEN Fail(d1, "NetworkError")
             ELSE LET m == Merge(d1, fetched)
                  IN  IF m.err # "none" THEN Fail(d1, m.err) ELSE Ok(m.df)

\* fetched: what read_from_web_CSV returned, or NoneDF when it raised
weather_station_mapping(d, fetched) ==
    IF ~fetched.loaded THEN Fail(d, "NetworkError")
    ELSE IF ~d.loaded THEN Fail(d, "AttributeError")
    ELSE LET d1 == Rename(d, StationRenameMap)
             m == Merge(d1, fetched)
         IN  IF m.err # "none" THEN Fail(d1, m.err) ELSE Ok(m.df)

-----------------------------------------------------------------------------
(* The instance: construction *)

RequiredKeys ==
    <<"db_path", "sql_query", "columns_to_rename", "values_to_rename",
      "weather_mapping_csv">>

\* a constructor that leaves the locator of the weather mapping unread
MissingKeyLazy(cfg) ==
    \E i \in 1..(Len(RequiredKeys) - 1) : RequiredKeys[i] \notin DOMAIN cfg

\* config_params[k] raises KeyError for the first k, in the order the
\* constructor reads them, that the mapping lacks
MissingKey(cfg) ==
    \E i \in 1..Len(RequiredKeys) : RequiredKeys[i] \notin DOMAIN cfg

\* __init__
Construct ==
    /\ obj = "absent"
    /\ IF MissingKey(config_params)
       THEN /\ obj' = "failed"
            /\ raised' = "KeyError"
            /\ UNCHANGED <<columns_to_rename, values_to_rename>>
       ELSE /\ obj' = "live"
            /\ raised' = "none"
            /\ columns_to_rename' = config_params["columns_to_rename"]
            /\ values_to_rename' = config_params["values_to_rename"]
    /\ UNCHANGED <<config_params, df, engine, io, pc, started, outcome, src,
                   trace, pre, pre2>>

-----------------------------------------------------------------------------
(* The stages as steps on the instance.  Each takes what its external        *)
(* collaborator answers as input and yields the error kind it raises.        *)

Call(op, arg, err) == [op |-> op, err |-> err, arg |-> arg]

\* answer: [engine_ok, query_ok, table]
IngestErr(answer) ==
    IF ~answer.engine_ok THEN "ConnectionError"
    ELSE IF ~answer.query_ok THEN "QueryError" ELSE "none"

\* ingest_sql_data
IngestStep(answer) ==
    /\ io' = io \cup (IF answer.engine_ok THEN {"create_db_engine", "query_data"}
                      ELSE {"create_db_engine"})
    /\ engine' = IF answer.engine_ok THEN "engine" ELSE engine
    /\ IF IngestErr(answer) = "none"
       THEN /\ df' = answer.table
            /\ src' = answer.table
            /\ trace' = <<>>
            /\ pre' = NoneDF
            /\ pre2' = NoneDF
       ELSE UNCHANGED <<df, src, trace, pre, pre2>>

StageStep(op, arg, res) ==
    /\ df' = res.df
    /\ trace' = Append(trace, Call(op, arg, res.err))
    /\ pre' = df
    /\ pre2' = pre
    /\ UNCHANGED <<engine, src>>

RenameRes == rename_columns(df, columns_to_rename)
RenameStep ==
    /\ StageStep("rename_columns", <<>>, RenameRes)
    /\ UNCHANGED io

CorrectRes(column_name, abs_column) ==
    apply_corrections(df, values_to_rename, column_name, abs_column)
CorrectStep(column_name, abs_column) ==
    /\ StageStep("apply_corrections", <<column_name, abs_column>>,
                 CorrectRes(column_name, abs_column))
    /\ UNCHANGED io

EnrichRes(fetched) == weather_station_mapping(df, fetched)
EnrichStep(fetched) ==
    /\ StageStep("weather_station_mapping", fetched, EnrichRes(fetched))
    /\ io' = io \cup {"read_from_web_CSV"}

-----------------------------------------------------------------------------
(* Direct calls of the stage methods *)

Callable == obj = "live" /\ pc = "idle"
Fixed == <<config_params, obj, columns_to_rename, values_to_rename>>

IngestSqlData(answer) ==
    /\ Callable
    /\ IngestStep(answer)
    /\ raised' = IngestErr(answer)
    /\ UNCHANGED <<Fixed, pc, started, outcome>>

RenameColumns ==
    /\ Callable
    /\ Len(trace) < MaxCalls
    /\ RenameStep
    /\ raised' = RenameRes.err
    /\ UNCHANGED <<Fixed, pc, started, outcome>>

ApplyCorrections(column_name, abs_column) ==
    /\ Callable
    /\ Len(trace) < MaxCalls
    /\ CorrectStep(column_name, abs_column)
    /\ raised' = CorrectRes(column_name, abs_column).err
    /\ UNCHANGED <<Fixed, pc, started, outcome>>

WeatherStationMapping(fetched) ==
    /\ Callable
    /\ Len(trace) < MaxCalls
    /\ EnrichStep(fetched)
    /\ raised' = EnrichRes(fetched).err
    /\ UNCHANGED <<Fixed, pc, started, outcome>>

-----------------------------------------------------------------------------
(* process(): the four calls, one after the other; an exception leaves it *)

\* a process() that goes on to the next stage whatever the stage raised
AfterSwallowing(stage, err, next) ==
    /\ started' = Append(started, [stage |-> stage, err |-> err])
    /\ pc' = next
    /\ outcome' = IF next = "idle" THEN "returned" ELSE "running"
    /\ raised' = IF next = "idle" THEN "none" ELSE raised

\* what follows a stage inside process(): the next statement, or the
\* exception leaving process() for its caller
After(stage, err, next) ==
    /\ started' = Append(started, [stage |-> stage, err |-> err])
    /\ IF err = "none"
       THEN /\ pc' = next
            /\ outcome' = IF next = "idle" THEN "returned" ELSE "running"
            /\ raised' = IF next = "idle" THEN "none" ELSE raised
       ELSE /\ pc' = "idle"
            /\ outcome' = err
            /\ raised' = err

ProcessCall ==
    /\ Callable
    /\ pc' = "ingest_sql_data"
    /\ started' = <<>>
    /\ outcome' = "running"
    /\ UNCHANGED <<Fixed, df, engine, io, raised, src, trace, pre, pre2>>

ProcessIngest(answer) ==
    /\ pc = "ingest_sql_data"
    /\ IngestStep(answer)
    /\ After("ingest_sql_data", IngestErr(answer), "rename_columns")
    /\ UNCHANGED Fixed

ProcessRename ==
    /\ pc = "rename_columns"
    /\ RenameStep
    /\ After("rename_columns", RenameRes.err, "apply_corrections")
    /\ UNCHANGED Fixed

ProcessCorrect ==
    /\ pc = "apply_corrections"
    /\ CorrectStep("Crop_type", "Elevation")
    /\ After("apply_corrections", CorrectRes("Crop_type", "Elevation").err,
             "weather_station_mapping")
    /\ UNCHANGED Fixed

ProcessEnrich(fetched) ==
    /\ pc = "weather_station_mapping"
    /\ EnrichStep(fetched)
    /\ After("weather_station_mapping", EnrichRes(fetched).err, "idle")
    /\ UNCHANGED Fixed

-----------------------------------------------------------------------------
(* Inputs of the pipeline: configurations, query results, fetched tables *)

SwapDict(a, b) == << <<a, b>> >>
NoRemap == [v \in {} |-> NullV]
RemapXYZ == (StrV("XYZ") :> StrV("Wheat"))
RemapChain == (StrV("XYZ") :> StrV("Wheat")) @@ (StrV("Corn") :> StrV("XYZ"))

FullConfig(c2r, remap) ==
    ("db_path" :> "sqlite:///field.db") @@ ("sql_query" :> "SELECT")
    @@ ("columns_to_rename" :> c2r) @@ ("values_to_rename" :> remap)
    @@ ("weather_mapping_csv" :> "https://host/mapping.csv")

KeySet == {RequiredKeys[i] : i \in 1..Len(RequiredKeys)}
Restrict(cfg, keys) == [k \in keys |-> cfg[k]]

ScenarioTable ==
    Table(<<"Field_ID", "Crop_type", "Elevation", "Weather_station_ID">>,
          << <<IntV(1), StrV("Corn"), IntV(-5), StrV("WS1")>>,
             <<IntV(2), StrV("XYZ"), IntV(10), StrV("WS2")>>,
             <<IntV(3), StrV("Corn"), IntV(-3), StrV("WS3")>> >>)

\* the two labels are exchanged at the source, the swap repairs them
MislabelledTable ==
    Table(<<"Field_ID", "Crop_type", "Elevation", "Weather_station_ID">>,
          << <<IntV(1), IntV(-5), StrV("Corn"), StrV("WS1")>>,
             <<IntV(3), IntV(10), StrV("XYZ"), StrV("WS3")>> >>)

NoElevationTable ==
    Table(<<"Field_ID", "Crop_type">>, << <<IntV(1), StrV("XYZ")>> >>)

NoFieldIdTable ==
    Table(<<"Crop_type", "Elevation", "Weather_station_ID">>,
          << <<IntV(-5), StrV("XYZ"), StrV("WS1")>> >>)

SourceTables == {ScenarioTable, MislabelledTable, NoElevationTable, NoFieldIdTable}

IngestAnswers ==
    {[engine_ok |-> FALSE, query_ok |-> FALSE, table |-> NoneDF],
     [engine_ok |-> TRUE, query_ok |-> FALSE, table |-> NoneDF]}
    \cup {[engine_ok |-> TRUE, query_ok |-> TRUE, table |-> t] : t \in SourceTables}

ScenarioStations ==
    Table(<<"Field_ID", "Weather_station">>,
          << <<IntV(1), StrV("Station-A")>>, <<IntV(2), StrV("Station-B")>> >>)

RepeatedStations ==
    Table(<<"Field_ID", "Station_name">>,
          << <<IntV(1), StrV("Station-A")>>, <<IntV(1), StrV("Station-B")>> >>)

NoKeyStations ==
    Table(<<"Weather_station">>, << <<StrV("Station-A")>> >>)

\* NoneDF: read_from_web_CSV raised
FetchAnswers == {ScenarioStations, RepeatedStations, NoKeyStations, NoneDF}

RenameDicts ==
    {<<>>, SwapDict("Crop_type", "Elevation"), SwapDict("Crop_type", "Annual_yield")}

Configs ==
    {Restrict(FullConfig(c2r, RemapXYZ), keys) :
        c2r \in RenameDicts, keys \in SUBSET KeySet}

-----------------------------------------------------------------------------
(* The pipeline: construction, direct calls, process() *)

Init ==
    /\ config_params \in Configs
    /\ obj = "absent"
    /\ columns_to_rename = <<>>
    /\ values_to_rename = NoRemap
    /\ df = NoneDF
    /\ engine = "None"
    /\ io = {}
    /\ raised = "none"
    /\ pc = "idle"
    /\ started = <<>>
    /\ outcome = "none"
    /\ src = NoneDF
    /\ trace = <<>>
    /\ pre = NoneDF
    /\ pre2 = NoneDF

Next ==
    \/ Construct
    \/ \E answer \in IngestAnswers : IngestSqlData(answer)
    \/ RenameColumns
    \/ ApplyCorrections("Crop_type", "Elevation")
    \/ \E fetched \in FetchAnswers : WeatherStationMapping(fetched)
    \/ ProcessCall
    \/ \E answer \in IngestAnswers : ProcessIngest(answer)
    \/ ProcessRename
    \/ ProcessCorrect
    \/ \E fetched \in FetchAnswers : ProcessEnrich(fetched)

Spec == Init /\ [][Next]_vars

\* column labels stay distinct in every table the model reaches
ColumnsUnique == IsUnique(df.cols)

-----------------------------------------------------------------------------
(* C1: process() *)

StageOrder ==
    <<"ingest_sql_data", "rename_columns", "apply_corrections",
      "weather_station_mapping">>

\* C1: process() starts the four stages once each in the order ingest_sql_data,
\* rename_columns, apply_corrections, weather_station_mapping; a stage is
\* started only when every stage before it ended without error; when a stage
\* fails process() ends there with that stage's error for its caller; and
\* process() returns normally only after all four stages ended without error.
C1_ProcessOrder ==
    /\ Len(started) <= Len(StageOrder)
    /\ \A i \in 1..Len(started) :
        /\ started[i].stage = StageOrder[i]
        /\ i < Len(started) => started[i].err = "none"
    /\ outcome = "running" =>
        /\ pc = StageOrder[Len(started) + 1]
        /\ \A i \in 1..Len(started) : started[i].err = "none"
    /\ outcome = "returned" =>
        /\ pc = "idle"
        /\ Len(started) = Len(StageOrder)
        /\ \A i \in 1..Len(started) : started[i].err = "none"
    /\ outcome \notin {"none", "running", "returned"} =>
        /\ pc = "idle"
        /\ Len(started) >= 1
        /\ started[Len(started)].err = outcome
    /\ (pc # "idle") = (outcome = "running")

\* process() was left by a failure of its third stage
C1_Witness ==
    /\ outcome = "TypeError"
    /\ raised = "TypeError"
    /\ Len(started) = 3

-----------------------------------------------------------------------------
(* C2: construction from an incomplete configuration *)

\* C2: when the configuration mapping lacks a required key, construction
\* fails with KeyError and yields no instance: no engine is created, no query
\* is run and no table is held.
C2_MissingKeyFailsFast ==
    (KeySet \ DOMAIN config_params # {}) =>
        /\ obj # "live"
        /\ obj = "failed" => raised = "KeyError"
        /\ engine = "None"
        /\ io = {}
        /\ df = NoneDF

\* construction was tried without the weather mapping locator
C2_Witness ==
    /\ obj = "failed"
    /\ raised = "KeyError"
    /\ KeySet \ DOMAIN config_params = {"weather_mapping_csv"}

-----------------------------------------------------------------------------
(* C9: the end-to-end scenario *)

ScenarioOps == <<"rename_columns", "apply_corrections", "weather_station_mapping">>

\* the scenario's configuration and ingested table, and since the ingestion
\* the scenario's calls in their order, the fetch answering with the
\* scenario's reference table
ScenarioRun ==
    /\ obj = "live"
    /\ columns_to_rename = SwapDict("Crop_type", "Elevation")
    /\ values_to_rename = RemapXYZ
    /\ src = ScenarioTable
    /\ Len(trace) <= Len(ScenarioOps)
    /\ \A i \in 1..Len(trace) :
        /\ trace[i].op = ScenarioOps[i]
        /\ i = 3 => trace[i].arg = ScenarioStations

ScenarioSwapped ==
    Table(<<"Field_ID", "Elevation", "Crop_type", "Weather_station_ID">>,
          ScenarioTable.rows)

ScenarioJoined ==
    Table(<<"Field_ID", "Elevation", "Crop_type", "Weather_station_x",
            "Weather_station_y">>,
          << <<IntV(1), StrV("Corn"), IntV(-5), StrV("WS1"), StrV("Station-A")>>,
             <<IntV(2), StrV("XYZ"), IntV(10), StrV("WS2"), StrV("Station-B")>>,
             <<IntV(3), StrV("Corn"), IntV(-3), StrV("WS3"), NullV>> >>)

-----------------------------------------------------------------------------
(* rename_columns on its own: any arrangement of up to MaxCols labels, any  *)
(* configured pair of labels                                                *)

\* the state of an instance that holds table t under configuration (c2r, remap)
Loaded(c2r, remap, t) ==
    /\ config_params = FullConfig(c2r, remap)
    /\ obj = "live"
    /\ columns_to_rename = c2r
    /\ values_to_rename = remap
    /\ df = t
    /\ engine = "engine"
    /\ io = {"create_db_engine", "query_data"}
    /\ raised = "none"
    /\ pc = "idle"
    /\ started = <<>>
    /\ outcome = "none"
    /\ src = t
    /\ trace = <<>>
    /\ pre = NoneDF
    /\ pre2 = NoneDF

RenameNames ==
    {"Crop_type", "Elevation", "Annual_yield", TempBase, TempBase \o "_"}

Arrangements(names) ==
    {cs \in UNION {[1..n -> names] : n \in 1..MaxCols} : IsUnique(cs)}

\* the cell of row r under the label the column has at the source
CellOf(name, r) ==
    CASE name = "Crop_type" -> StrV(IF r = 1 THEN "Corn" ELSE "XYZ")
      [] name = "Elevation" -> IntV(IF r = 1 THEN -5 ELSE 10)
      [] name = "Annual_yield" -> IntV(r)
      [] name = "Field_ID" -> IntV(r)
      [] name = "Weather_station_ID" -> StrV(IF r = 1 THEN "WS1" ELSE "WS2")
      [] OTHER -> StrV(name)

TableOf(cs, n) == Table(cs, [r \in 1..n |-> [j \in 1..Len(cs) |-> CellOf(cs[j], r)]])

RenameTables == {TableOf(cs, MaxRows) : cs \in Arrangements(RenameNames)}

InitRename ==
    \E a \in RenameNames, b \in RenameNames, t \in RenameTables :
        Loaded(SwapDict(a, b), RemapXYZ, t)

RenameApply == Len(trace) < MaxApply /\ RenameColumns

SpecRename == InitRename /\ [][RenameApply]_vars

LastCall == trace[Len(trace)]
Column1 == columns_to_rename[1][1]
Column2 == columns_to_rename[1][2]

\* the last call was rename_columns, on a table holding both configured labels
SwapCase(before) ==
    /\ Len(trace) >= 1
    /\ LastCall.op = "rename_columns"
    /\ before.loaded
    /\ columns_to_rename # <<>>
    /\ Column1 \in ColSet(before)
    /\ Column2 \in ColSet(before)

\* C3: when the table holds both configured labels A and B, rename_columns
\* completes and exchanges the two labels only: the column that was labelled
\* A is labelled B and the one labelled B is labelled A, every other column
\* keeps its label, and the rows (their number and their cells, position by
\* position) are as before.
C3_SwapsLabelsOnly ==
    SwapCase(pre) =>
        /\ LastCall.err = "none"
        /\ df.rows = pre.rows
        /\ Len(df.cols) = Len(pre.cols)
        /\ \A j \in 1..Len(pre.cols) :
            df.cols[j] = IF pre.cols[j] = Column1 THEN Column2
                         ELSE IF pre.cols[j] = Column2 THEN Column1
                         ELSE pre.cols[j]

\* two different labels were exchanged in a table that already has a column
\* named like the placeholder
C3_Witness ==
    /\ SwapCase(pre)
    /\ Column1 # Column2
    /\ TempBase \in ColSet(pre) \ {Column1, Column2}
    /\ df.cols # pre.cols

\* C4: on a table holding both configured labels, two rename_columns calls
\* in a row give back the table they started from: the same labels at the
\* same positions over the same rows.
C4_Involution ==
    (/\ Len(trace) >= 2
     /\ trace[Len(trace) - 1].op = "rename_columns"
     /\ SwapCase(pre2)) => df = pre2

\* two calls were made, and the first one changed the arrangement
C4_Witness ==
    /\ Len(trace) >= 2
    /\ trace[Len(trace) - 1].op = "rename_columns"
    /\ SwapCase(pre2)
    /\ pre # pre2
    /\ df = pre2

\* C5 as claimed: when the table lacks one of the two configured labels,
\* rename_columns fails with KeyError and leaves the labels as they were
C5_AsClaimed ==
    (/\ Len(trace) >= 1
     /\ LastCall.op = "rename_columns"
     /\ pre.loaded
     /\ columns_to_rename # <<>>
     /\ ~(Column1 \in ColSet(pre) /\ Column2 \in ColSet(pre)))
    => (LastCall.err = "KeyError" /\ df.cols = pre.cols)

-----------------------------------------------------------------------------
(* apply_corrections on its own: tables of up to MaxRows rows whose numeric *)
(* column holds integers down to the smallest of the dtype, or strings      *)

ElevationCells == {IntV(IntMin), IntV(-5), IntV(10), StrV("Corn")}
CropCells == {StrV("Corn"), StrV("XYZ"), IntV(-3)}

CorrectTables ==
    UNION {
        {Table(<<"Field_ID", "Crop_type", "Elevation">>,
               [r \in 1..n |-> <<IntV(r), cells[r][1], cells[r][2]>>]) :
            cells \in [1..n -> CropCells \X ElevationCells]}
        \cup {Table(<<"Field_ID", "Elevation">>,
                    [r \in 1..n |-> <<IntV(r), cells[r]>>]) :
            cells \in [1..n -> ElevationCells]}
        \cup {Table(<<"Crop_type", "Field_ID">>,
                    [r \in 1..n |-> <<cells[r], IntV(r)>>]) :
            cells \in [1..n -> CropCells]}
        : n \in 1..MaxRows}

Remaps == {NoRemap, RemapXYZ, RemapChain}

\* (column_name, abs_column): the defaults, and the two the other way round
CorrectArgs == {<<"Crop_type", "Elevation">>, <<"Elevation", "Crop_type">>}

InitCorrect ==
    \E remap \in Remaps, t \in CorrectTables :
        Loaded(SwapDict("Crop_type", "Elevation"), remap, t)

CorrectApply ==
    /\ Len(trace) < MaxApply
    /\ \E args \in CorrectArgs : ApplyCorrections(args[1], args[2])

SpecCorrect == InitCorrect /\ [][CorrectApply]_vars

\* the last call was apply_corrections and it completed
Corrected ==
    /\ Len(trace) >= 1
    /\ LastCall.op = "apply_corrections"
    /\ LastCall.err = "none"

Magnitude(n) == IF n < 0 THEN 0 - n ELSE n

\* C6 as claimed: after apply_corrections every value of the numeric column
\* is the absolute value of what the row held before, and none is negative
C6_AsClaimed ==
    Corrected =>
        \A r \in 1..Len(pre.rows) :
            LET before == Column(pre, LastCall.arg[2])[r]
                after == Column(df, LastCall.arg[2])[r]
            IN  before.t = "int" =>
                    after = IntV(Magnitude(before.i)) /\ after.i >= 0

\* C7: after apply_corrections has completed, every row's value in the
\* categorical column is values_to_rename[v] when the value v it held before
\* is a key of values_to_rename, and v itself otherwise; no row is added or
\* removed.
C7_RemapOrKeep ==
    Corrected =>
        /\ Len(df.rows) = Len(pre.rows)
        /\ \A r \in 1..Len(pre.rows) :
            LET v == Column(pre, LastCall.arg[1])[r]
            IN  Column(df, LastCall.arg[1])[r]
                  = IF v \in DOMAIN values_to_rename THEN values_to_rename[v] ELSE v

\* a call with the default columns remapped one row and kept another
C7_Witness ==
    /\ Corrected
    /\ LastCall.arg = <<"Crop_type", "Elevation">>
    /\ \E r1, r2 \in 1..Len(pre.rows) :
        /\ Column(pre, "Crop_type")[r1] \in DOMAIN values_to_rename
        /\ Column(df, "Crop_type")[r1] # Column(pre, "Crop_type")[r1]
        /\ Column(pre, "Crop_type")[r2] \notin DOMAIN values_to_rename
        /\ Column(df, "Crop_type")[r2] = Column(pre, "Crop_type")[r2]

-----------------------------------------------------------------------------
(* weather_station_mapping on its own: datasets of up to MaxRows rows with  *)
(* any Field_ID per row, reference tables with and without repeated keys   *)

FieldIds == {1, 2, 3}

EnrichTables ==
    UNION {
        {Table(<<"Field_ID", second>>,
               [r \in 1..n |-> <<IntV(ids[r]), CellOf(second, r)>>]) :
            ids \in [1..n -> FieldIds],
            second \in {"Weather_station_ID", "Weather_station", "Crop_type"}}
        \cup {TableOf(<<"Crop_type", "Weather_station_ID">>, n)}
        : n \in 0..MaxRows}

RepeatedSameName ==
    Table(<<"Weather_station", "Field_ID">>,
          << <<StrV("Station-A"), IntV(2)>>, <<StrV("Station-B"), IntV(2)>> >>)

EmptyStations == Table(<<"Field_ID", "Weather_station">>, <<>>)

EnrichAnswers ==
    {ScenarioStations, RepeatedStations, RepeatedSameName, EmptyStations,
     NoKeyStations, NoneDF}

InitEnrich ==
    \E t \in EnrichTables :
        Loaded(SwapDict("Crop_type", "Elevation"), RemapXYZ, t)

EnrichApply ==
    /\ Len(trace) < MaxApply
    /\ \E fetched \in EnrichAnswers : WeatherStationMapping(fetched)

SpecEnrich == InitEnrich /\ [][EnrichApply]_vars

\* the last call was weather_station_mapping and it completed
Enriched ==
    /\ Len(trace) >= 1
    /\ LastCall.op = "weather_station_mapping"
    /\ LastCall.err = "none"

\* the reference rows whose Field_ID is key
Hits(ref, key) ==
    {j \in 1..Len(ref.rows) : ref.rows[j][ColIndex(ref.cols, JoinKey)] = key}

KeyOf(t, row) == row[ColIndex(t.cols, JoinKey)]

\* the cells a result row took from the reference table
RefPart(row) == SubSeq(row, Len(pre.cols) + 1, Len(row))

NullFilled(row) == \A j \in 1..Len(row) : row[j] = NullV

\* C8 as amended: weather_station_mapping drops no dataset row: every row
\* held before is in the result, the row count does not shrink, and it is
\* unchanged whenever no Field_ID of the dataset occurs more than once in the
\* reference table; every result row whose Field_ID has no match in the
\* reference table is null in the reference table's columns.
C8_NoRowDropped ==
    Enriched =>
        LET ref == LastCall.arg
        IN  /\ Len(df.rows) >= Len(pre.rows)
            /\ \A r \in 1..Len(pre.rows) :
                \E q \in 1..Len(df.rows) :
                    SubSeq(df.rows[q], 1, Len(pre.cols)) = pre.rows[r]
            /\ (\A r \in 1..Len(pre.rows) :
                    Cardinality(Hits(ref, KeyOf(pre, pre.rows[r]))) <= 1)
                => Len(df.rows) = Len(pre.rows)
            /\ \A q \in 1..Len(df.rows) :
                Hits(ref, KeyOf(df, df.rows[q])) = {} => NullFilled(RefPart(df.rows[q]))

\* a join in which one row found two reference rows and another found none
C8_Witness ==
    /\ Enriched
    /\ Len(df.rows) > Len(pre.rows)
    /\ \E q \in 1..Len(df.rows) :
        /\ Hits(LastCall.arg, KeyOf(df, df.rows[q])) = {}
        /\ RefPart(df.rows[q]) # <<>>
        /\ NullFilled(RefPart(df.rows[q]))

\* C8 as claimed: the row count after the join equals the row count before
\* it, for any dataset and any reference table, and unmatched rows are null
\* in the reference table's columns
C8_AsClaimed ==
    Enriched =>
        /\ Len(df.rows) = Len(pre.rows)
        /\ \A q \in 1..Len(df.rows) :
            Hits(LastCall.arg, KeyOf(df, df.rows[q])) = {}
                => NullFilled(RefPart(df.rows[q]))

\* the last call was weather_station_mapping
MappingCalled == Len(trace) >= 1 /\ LastCall.op = "weather_station_mapping"

\* C10 as amended: weather_station_mapping fetches first, renames next and
\* joins last.  Every call attempts the fetch; a failed fetch reaches the
\* caller as the call's error and leaves the dataset as it was, the column
\* Weather_station_ID not renamed; after a fetch that succeeded the column
\* that was labelled Weather_station_ID is labelled Weather_station (which
\* the join suffixes to Weather_station_x when the reference table has a
\* column of that name), whatever the join does; and the reference cells of
\* a completed call are null or cells of the table this call fetched.
C10_FetchRenameJoin ==
    MappingCalled =>
        LET ref == LastCall.arg
        IN  /\ "read_from_web_CSV" \in io
            /\ ~ref.loaded => (LastCall.err = "NetworkError" /\ raised = "NetworkError"
                               /\ df = pre)
            /\ ref.loaded => LastCall.err # "NetworkError"
            /\ (ref.loaded /\ pre.loaded) =>
                \A j \in 1..Len(pre.cols) :
                    pre.cols[j] = "Weather_station_ID"
                        => df.cols[j] \in {"Weather_station", "Weather_station_x"}
            /\ LastCall.err = "none" =>
                \A q \in 1..Len(df.rows) :
                    \/ NullFilled(RefPart(df.rows[q]))
                    \/ \E j \in 1..Len(ref.rows) :
                        RefPart(df.rows[q])
                            = DropAt(ref.rows[j], ColIndex(ref.cols, JoinKey))

\* a call whose fetch failed left Weather_station_ID in place, and the next
\* call fetched again, renamed the column and joined
C10_Witness ==
    /\ Len(trace) >= 2
    /\ trace[Len(trace) - 1].op = "weather_station_mapping"
    /\ trace[Len(trace) - 1].err = "NetworkError"
    /\ HasCol(pre, "Weather_station_ID")
    /\ pre = pre2
    /\ Enriched
    /\ ~HasCol(df, "Weather_station_ID")
    /\ Len(df.rows) >= 1

\* C10 as claimed: the rename is in place by the time the fetch is attempted,
\* so also after a call whose fetch failed; and a fetch failure propagates
C10_AsClaimed ==
    (MappingCalled /\ pre.loaded) =>
        /\ \A j \in 1..Len(pre.cols) : df.cols[j] # "Weather_station_ID"
        /\ ~LastCall.arg.loaded => LastCall.err = "NetworkError"

====
